---- MODULE Spec2Model ----
(***************************************************************************)
(* Verification model of the two regression-check harnesses                *)
(*   tests/test_static_analysis.py  (14 text rules over app/app.py)        *)
(*   tests/test_critical_fixes.py   (7 introspection rules over the app)   *)
(* Source text is modelled as a character string; substring tests and the  *)
(* regular expressions of the rules are computed on the characters.        *)
(***************************************************************************)
EXTENDS Integers, Sequences, FiniteSets, TLC

VARIABLES harness, target, tests, pc, idx, results, out, reads, crashed,
          summary, run, prev, faultsLeft

vars == <<harness, target, tests, pc, idx, results, out, reads, crashed,
          summary, run, prev, faultsLeft>>

(***************************************************************************)
(* Bounds of the model.                                                    *)
(***************************************************************************)
\* chunks concatenated into one candidate app/app.py
MaxFrags == 3
\* registrations in a candidate route table
MaxRoutes == 3
\* transient read failures the environment injects during one scenario
MaxFaults == 1
\* invocations of main() in immediate succession
MaxRuns == 2
\* rotations of the catalog tried as other orders of the list
MaxShift == 2

(***************************************************************************)
(* Strings: Python's `in`, str.startswith, str.split('\n'), '\n'.join.      *)
(***************************************************************************)
NL == "\n"

Min(S) == CHOOSE x \in S : \A y \in S : x <= y

\* s[i:i+len(p)] == p   (1-based i)
MatchAt(s, i, p) == i + Len(p) - 1 <= Len(s) /\ SubSeq(s, i, i + Len(p) - 1) = p

\* p in s
Contains(s, p) == \E i \in 1..(Len(s) - Len(p) + 1) : MatchAt(s, i, p)

\* s.startswith(p)
StartsWith(s, p) == MatchAt(s, 1, p)

\* positions of the newline characters of s
NewlinesOf(s) == { i \in 1..Len(s) : SubSeq(s, i, i) = NL }

\* the elements of a finite set of numbers, ascending
RECURSIVE Ascending(_)
Ascending(S) == IF S = {} THEN <<>> ELSE <<Min(S)>> \o Ascending(S \ {Min(S)})

\* s.split('\n')
Split(s) ==
    LET cuts == <<0>> \o Ascending(NewlinesOf(s)) \o <<Len(s) + 1>>
    IN  [k \in 1..(Len(cuts) - 1) |-> SubSeq(s, cuts[k] + 1, cuts[k + 1] - 1)]

\* '\n'.join(ls)
RECURSIVE Join(_)
Join(ls) ==
    IF Len(ls) = 0 THEN ""
    ELSE IF Len(ls) = 1 THEN ls[1]
    ELSE ls[1] \o NL \o Join(Tail(ls))

\* line.strip() for the blanks the vocabulary uses (leading/trailing spaces)
RECURSIVE Strip(_)
Strip(s) ==
    IF Len(s) = 0 THEN s
    ELSE IF SubSeq(s, 1, 1) = " " THEN Strip(SubSeq(s, 2, Len(s)))
    ELSE IF SubSeq(s, Len(s), Len(s)) = " " THEN Strip(SubSeq(s, 1, Len(s) - 1))
    ELSE s

(***************************************************************************)
(* Regular expressions of the rules.                                       *)
(***************************************************************************)
\* ['\"]
Quotes == {"'", "\""}

\* \w
WordChars ==
    {"a","b","c","d","e","f","g","h","i","j","k","l","m","n","o","p","q","r",
     "s","t","u","v","w","x","y","z","A","B","C","D","E","F","G","H","I","J",
     "K","L","M","N","O","P","Q","R","S","T","U","V","W","X","Y","Z","0","1",
     "2","3","4","5","6","7","8","9","_"}

\* length of the longest run of \w characters of s starting at i
WordRun(s, i) ==
    LET stops == { j \in i..Len(s) : SubSeq(s, j, j) \notin WordChars }
    IN  (IF stops = {} THEN Len(s) + 1 ELSE Min(stops)) - i

\* the pattern  <head>['\"]<path>['\"]<tail>
Quoted(head, path, tail) == [quoted |-> TRUE, head |-> head, path |-> path, tail |-> tail]

\* the pattern of a literal text
Literal(text) == [quoted |-> FALSE, head |-> text, path |-> "", tail |-> ""]

\* the length of every match of P
PatLen(P) == Len(P.head) + Len(P.path) + Len(P.tail) + (IF P.quoted THEN 2 ELSE 0)

\* P matches s at i
MatchAny(s, i, P) ==
    /\ MatchAt(s, i, P.head)
    /\ \/ ~P.quoted
       \/ LET a == i + Len(P.head)
              b == a + 1 + Len(P.path)
          IN  /\ b <= Len(s)
              /\ SubSeq(s, a, a) \in Quotes
              /\ MatchAt(s, a + 1, P.path)
              /\ SubSeq(s, b, b) \in Quotes
              /\ MatchAt(s, b + 1, P.tail)

\* positions at which some alternative of P matches
Hits(s, P) == { i \in 1..Len(s) : MatchAny(s, i, P) }

\* len(re.findall(P, s)): leftmost non-overlapping matches, scanning from i
RECURSIVE CountFrom(_, _, _)
CountFrom(s, i, P) ==
    LET hits == { j \in i..Len(s) : MatchAny(s, j, P) }
    IN  IF hits = {} THEN 0
        ELSE 1 + CountFrom(s, Min(hits) + PatLen(P), P)

FindAllCount(s, P) == CountFrom(s, 1, P)

\* \ndef \w+\(   matches s at k
DefAhead(s, k) ==
    /\ MatchAt(s, k, "\ndef ")
    /\ LET w == WordRun(s, k + 5)
       IN  w >= 1 /\ MatchAt(s, k + 5 + w, "(")

\* \nclass \w+   matches s at k
ClassAhead(s, k) == MatchAt(s, k, "\nclass ") /\ WordRun(s, k + 7) >= 1

\* (?=\n@app\.route|\ndef \w+\(|\nclass \w+)
EndVerify(s, k) == MatchAt(s, k, "\n@app.route") \/ DefAhead(s, k) \/ ClassAhead(s, k)

\* (?=\n@socketio\.on|\n@app\.route|\ndef \w+\()
EndSocket(s, k) == MatchAt(s, k, "\n@socketio.on") \/ MatchAt(s, k, "\n@app.route") \/ DefAhead(s, k)

\* (?=\n@app\.route|\ndef \w+\()
EndRoute(s, k) == MatchAt(s, k, "\n@app.route") \/ DefAhead(s, k)

\* the lookahead of the rule named by `rule`
EndAt(rule, s, k) ==
    CASE rule = "verify_signature" -> EndVerify(s, k)
      [] rule = "message" -> EndSocket(s, k)
      [] OTHER -> EndRoute(s, k)

NoMatch == [found |-> FALSE, body |-> ""]

\* re.search(P + r"(.*?)(?=End)", s, re.DOTALL): leftmost start, shortest body
RegionAfter(s, P, rule) ==
    LET ends(i) == { k \in i..Len(s) : EndAt(rule, s, k) }
        after(i) == i + PatLen(P)
        cands == { i \in Hits(s, P) : ends(after(i)) # {} }
    IN  IF cands = {} THEN NoMatch
        ELSE LET i == Min(cands)
             IN  [found |-> TRUE, body |-> SubSeq(s, after(i), Min(ends(after(i))) - 1)]

\* re.search(P + r".*?" + D + r"(.*?)(?=End)", s, re.DOTALL)
RegionAfterDef(s, P, D, rule) ==
    LET ends(j) == { k \in j..Len(s) : EndAt(rule, s, k) }
        after(i) == i + PatLen(P)
        defs(i) == { j \in after(i)..Len(s) : MatchAt(s, j, D) /\ ends(j + Len(D)) # {} }
        cands == { i \in Hits(s, P) : defs(i) # {} }
    IN  IF cands = {} THEN NoMatch
        ELSE LET i == Min(cands)
                 j == Min(defs(i))
             IN  [found |-> TRUE,
                  body |-> SubSeq(s, j + Len(D), Min(ends(j + Len(D))) - 1)]

(***************************************************************************)
(* Output lines and rule outcomes.                                         *)
(***************************************************************************)
Line(kind, msg) == [kind |-> kind, msg |-> msg]

\* the rule returned ret after printing lines, no exception on the way
Returned(ret, lines) == [raised |-> FALSE, exc |-> FALSE, ret |-> ret, lines |-> lines]

\* an exception left the rule after it printed lines
Raised(lines) == [raised |-> TRUE, exc |-> TRUE, ret |-> FALSE, lines |-> lines]

\* the rule's own `except Exception` caught an exception: it printed lines
\* (the last one its print_fail) and returned False
Caught(lines) == [raised |-> FALSE, exc |-> TRUE, ret |-> FALSE, lines |-> lines]

\* program constants of the rules
PreviewLineLimit == 10
ContextLines == 5
AppendContextLines == 10
PreviewCount == 3

Max(a, b) == IF a >= b THEN a ELSE b

(***************************************************************************)
(* tests/test_static_analysis.py: the 14 rules.  rd is what read_file      *)
(* gave: [ok |-> FALSE] when open() raised, else [ok |-> TRUE, text].      *)
(***************************************************************************)
\* the rule with `len(matches) >= 1` as the passing case
test_issue1_no_duplicate_routesAtLeastOne(rd) ==
    LET hdr == <<Line("test", "Issue #1: No duplicate /verify_signature routes")>>
    IN  IF ~rd.ok THEN Raised(hdr)
        ELSE LET n == FindAllCount(rd.text, Quoted("@app.route(", "/verify_signature", ""))
             IN  IF n = 0
                 THEN Returned(FALSE, hdr \o <<Line("fail", "No /verify_signature route found!")>>)
                 ELSE Returned(TRUE, hdr \o <<Line("ok", "Only ONE /verify_signature route found (correct)")>>)

test_issue1_no_duplicate_routes(rd) ==
    LET hdr == <<Line("test", "Issue #1: No duplicate /verify_signature routes")>>
    IN  IF ~rd.ok THEN Raised(hdr)
        ELSE LET n == FindAllCount(rd.text, Quoted("@app.route(", "/verify_signature", ""))
             IN  IF n = 0
                 THEN Returned(FALSE, hdr \o <<Line("fail", "No /verify_signature route found!")>>)
                 ELSE IF n = 1
                 THEN Returned(TRUE, hdr \o <<Line("ok", "Only ONE /verify_signature route found (correct)")>>)
                 ELSE Returned(FALSE, hdr \o
                        <<Line("fail", "Found " \o ToString(n) \o " duplicate /verify_signature routes!")>>)

test_issue1_no_legacy_function(rd) ==
    LET hdr == <<Line("test", "Issue #1: verify_signature_legacy function deleted")>>
    IN  IF ~rd.ok THEN Raised(hdr)
        ELSE IF Contains(rd.text, "def verify_signature_legacy(")
        THEN Returned(FALSE, hdr \o
               <<Line("fail", "verify_signature_legacy function still exists (should be deleted)")>>)
        ELSE Returned(TRUE, hdr \o
               <<Line("ok", "verify_signature_legacy function deleted (correct)")>>)

test_issue1_finish_login_used(rd) ==
    LET hdr == <<Line("test", "Issue #1: verify_signature uses _finish_login for OAuth cookies")>>
    IN  IF ~rd.ok THEN Raised(hdr)
        ELSE LET match == RegionAfterDef(rd.text, Quoted("@app.route(", "/verify_signature", ")"),
                                         "def verify_signature():", "verify_signature")
             IN  IF ~match.found
                 THEN Returned(FALSE, hdr \o <<Line("fail", "Could not find verify_signature function")>>)
                 ELSE IF Contains(match.body, "_finish_login")
                 THEN Returned(TRUE, hdr \o <<Line("ok", "verify_signature calls _finish_login (correct)")>>)
                 ELSE Returned(TRUE, hdr \o <<Line("warn", "verify_signature may not call _finish_login")>>)

\* the info() lines of test_issue2_no_get_storage_calls, in file order
RECURSIVE StorageInfo(_, _)
StorageInfo(lines, i) ==
    IF i > Len(lines) THEN <<>>
    ELSE (IF Contains(lines[i], "get_storage()") /\ i < PreviewLineLimit
          THEN <<Line("info", "  Line " \o ToString(i) \o ": " \o Strip(lines[i]))>>
          ELSE <<>>) \o StorageInfo(lines, i + 1)

test_issue2_no_get_storage_calls(rd) ==
    LET hdr == <<Line("test", "Issue #2: No get_storage() calls in OAuth code")>>
    IN  IF ~rd.ok THEN Raised(hdr)
        ELSE LET n == FindAllCount(rd.text, Literal("get_storage()"))
             IN  IF n = 0
                 THEN Returned(TRUE, hdr \o
                        <<Line("ok", "No get_storage() calls found (correct - using db_storage)")>>)
                 ELSE Returned(FALSE, hdr \o
                        <<Line("fail", "Found " \o ToString(n) \o " get_storage() calls (should use db_storage)")>>
                        \o StorageInfo(Split(rd.text), 1))

test_issue2_uses_store_oauth_client(rd) ==
    LET hdr == <<Line("test", "Issue #2: Uses store_oauth_client() from db_storage")>>
    IN  IF ~rd.ok THEN Raised(hdr)
        ELSE IF Contains(rd.text, "store_oauth_client(")
        THEN Returned(TRUE, hdr \o <<Line("ok", "store_oauth_client() is used (PostgreSQL storage)")>>)
        ELSE Returned(FALSE, hdr \o <<Line("fail", "store_oauth_client() not found (should use db_storage)")>>)

test_issue2_uses_get_oauth_client(rd) ==
    LET hdr == <<Line("test", "Issue #2: Uses get_oauth_client() from db_storage")>>
    IN  IF ~rd.ok THEN Raised(hdr)
        ELSE IF Contains(rd.text, "get_oauth_client(")
        THEN Returned(TRUE, hdr \o <<Line("ok", "get_oauth_client() is used (PostgreSQL storage)")>>)
        ELSE Returned(FALSE, hdr \o <<Line("fail", "get_oauth_client() not found (should use db_storage)")>>)

\* a for-loop over (pattern, message) items: one ok line per pattern found in
\* text, one badKind line per pattern not found, in the order of the list
RECURSIVE CheckEach(_, _, _)
CheckEach(text, items, badKind) ==
    IF Len(items) = 0 THEN <<>>
    ELSE (IF Contains(text, items[1].pat)
          THEN <<Line("ok", items[1].ok)>>
          ELSE <<Line(badKind, items[1].bad)>>)
         \o CheckEach(text, Tail(items), badKind)

\* all_ok of such a loop when a miss clears it
AllFound(text, items) == \A k \in 1..Len(items) : Contains(text, items[k].pat)

Item(pat, okMsg, badMsg) == [pat |-> pat, ok |-> okMsg, bad |-> badMsg]

test_issue2_uses_oauth_code_functions(rd) ==
    LET hdr == <<Line("test", "Issue #2: OAuth codes use db_storage functions")>>
        checks == <<Item("store_oauth_code(", "store_oauth_code() is used", "store_oauth_code() not found"),
                    Item("get_oauth_code(", "get_oauth_code() is used", "get_oauth_code() not found"),
                    Item("delete_oauth_code(", "delete_oauth_code() is used", "delete_oauth_code() not found")>>
    IN  IF ~rd.ok THEN Raised(hdr)
        ELSE Returned(AllFound(rd.text, checks), hdr \o CheckEach(rd.text, checks, "fail"))

test_issue2_deprecated_stores_marked(rd) ==
    LET hdr == <<Line("test", "Issue #2: In-memory stores marked DEPRECATED")>>
        mark(decl, name) ==
            IF Contains(rd.text, decl) /\ Contains(rd.text, "DEPRECATED")
            THEN <<Line("ok", name \o " marked as DEPRECATED")>>
            ELSE <<Line("warn", name \o " may not be clearly marked as DEPRECATED")>>
    IN  IF ~rd.ok THEN Raised(hdr)
        ELSE Returned(TRUE, hdr \o mark("CLIENT_STORE: Dict", "CLIENT_STORE")
                                \o mark("AUTH_CODE_STORE: Dict", "AUTH_CODE_STORE"))

test_issue3_redis_functions_exist(rd) ==
    LET hdr == <<Line("test", "Issue #3: Redis chat history functions exist")>>
        funcs == <<Item("def get_chat_history(", "get_chat_history() exists", "get_chat_history() not found"),
                   Item("def add_chat_message(", "add_chat_message() exists", "add_chat_message() not found"),
                   Item("def purge_old_chat_messages(", "purge_old_chat_messages() exists",
                        "purge_old_chat_messages() not found")>>
    IN  IF ~rd.ok THEN Raised(hdr)
        ELSE Returned(AllFound(rd.text, funcs), hdr \o CheckEach(rd.text, funcs, "fail"))

test_issue3_get_redis_import(rd) ==
    LET hdr == <<Line("test", "Issue #3: get_redis imported from database")>>
    IN  IF ~rd.ok THEN Raised(hdr)
        ELSE IF Contains(rd.text, "from app.database import") /\ Contains(rd.text, "get_redis")
        THEN Returned(TRUE, hdr \o <<Line("ok", "get_redis imported from app.database")>>)
        ELSE Returned(FALSE, hdr \o <<Line("fail", "get_redis not imported from app.database")>>)

\* the rule with `all_ok = False` in the warning branch
test_issue3_redis_operations_usedStrict(rd) ==
    LET hdr == <<Line("test", "Issue #3: Redis operations used (LPUSH, LRANGE, LTRIM)")>>
        ops == <<Item("redis_client.lpush", "Uses Redis LPUSH operation", "May not use Redis LPUSH operation"),
                 Item("redis_client.lrange", "Uses Redis LRANGE operation", "May not use Redis LRANGE operation"),
                 Item("redis_client.ltrim", "Uses Redis LTRIM operation", "May not use Redis LTRIM operation")>>
    IN  IF ~rd.ok THEN Raised(hdr)
        ELSE Returned(AllFound(rd.text, ops), hdr \o CheckEach(rd.text, ops, "warn"))

test_issue3_redis_operations_used(rd) ==
    LET hdr == <<Line("test", "Issue #3: Redis operations used (LPUSH, LRANGE, LTRIM)")>>
        ops == <<Item("redis_client.lpush", "Uses Redis LPUSH operation", "May not use Redis LPUSH operation"),
                 Item("redis_client.lrange", "Uses Redis LRANGE operation", "May not use Redis LRANGE operation"),
                 Item("redis_client.ltrim", "Uses Redis LTRIM operation", "May not use Redis LTRIM operation")>>
    IN  IF ~rd.ok THEN Raised(hdr)
        ELSE Returned(TRUE, hdr \o CheckEach(rd.text, ops, "warn"))

test_issue3_add_chat_message_used(rd) ==
    LET hdr == <<Line("test", "Issue #3: WebSocket handler uses add_chat_message()")>>
    IN  IF ~rd.ok THEN Raised(hdr)
        ELSE LET match == RegionAfter(rd.text, Quoted("@socketio.on(", "message", ")"), "message")
             IN  IF ~match.found
                 THEN Returned(TRUE, hdr \o <<Line("warn", "Could not find @socketio.on('message') handler")>>)
                 ELSE IF Contains(match.body, "add_chat_message(")
                 THEN Returned(TRUE, hdr \o <<Line("ok", "Message handler uses add_chat_message() (correct)")>>)
                 ELSE Returned(FALSE, hdr \o <<Line("fail", "Message handler does NOT use add_chat_message()")>>)

test_issue3_get_chat_history_used(rd) ==
    LET hdr == <<Line("test", "Issue #3: Uses get_chat_history() instead of direct access")>>
    IN  IF ~rd.ok THEN Raised(hdr)
        ELSE LET match == RegionAfter(rd.text, Quoted("@app.route(", "/chat", ")"), "/chat")
             IN  IF ~match.found
                 THEN Returned(TRUE, hdr \o <<Line("warn", "Could not find /chat route")>>)
                 ELSE IF Contains(match.body, "get_chat_history()")
                         \/ Contains(match.body, "history=get_chat_history()")
                 THEN Returned(TRUE, hdr \o <<Line("ok", "/chat route uses get_chat_history() (correct)")>>)
                 ELSE Returned(FALSE, hdr \o <<Line("fail", "/chat route does NOT use get_chat_history()")>>)

\* some line containing decl has DEPRECATED among the ContextLines lines before it
MarkedDeprecated(text, decl) ==
    LET lines == Split(text)
    IN  \E i \in 1..Len(lines) :
            /\ Contains(lines[i], decl)
            /\ Contains(Join(SubSeq(lines, Max(1, i - ContextLines), i - 1)), "DEPRECATED")

test_issue3_chat_history_deprecated(rd) ==
    LET hdr == <<Line("test", "Issue #3: CHAT_HISTORY marked DEPRECATED")>>
    IN  IF ~rd.ok THEN Raised(hdr)
        ELSE IF MarkedDeprecated(rd.text, "CHAT_HISTORY: List")
        THEN Returned(TRUE, hdr \o <<Line("ok", "CHAT_HISTORY marked as DEPRECATED (correct)")>>)
        ELSE Returned(FALSE, hdr \o <<Line("fail", "CHAT_HISTORY not clearly marked as DEPRECATED")>>)

HasKind(lines, kind) == \E i \in 1..Len(lines) : lines[i].kind = kind

(***************************************************************************)
(* tests/test_critical_fixes.py: the 7 rules.  t is the live target:       *)
(*   importable  `from app import app` / `import app.app` succeed          *)
(*   dbStorage   `from app.db_storage import ...` succeeds                 *)
(*   routes      flask_app.url_map.iter_rules(), in order                  *)
(*   members     module attribute name -> [kind, src, methods]             *)
(* rd is what open('app/app.py').read() gave.                              *)
(***************************************************************************)
\* sorted() of the HTTP method names
MethodOrder == <<"DELETE", "GET", "HEAD", "OPTIONS", "PATCH", "POST", "PUT">>

\* ','.join(sorted(methods - {'HEAD', 'OPTIONS'}))
RECURSIVE CommaJoin(_)
CommaJoin(ls) ==
    IF Len(ls) = 0 THEN ""
    ELSE IF Len(ls) = 1 THEN ls[1]
    ELSE ls[1] \o "," \o CommaJoin(Tail(ls))

MethodsString(methods) ==
    LET keep(m) == m \in methods /\ m \notin {"HEAD", "OPTIONS"}
    IN  CommaJoin(SelectSeq(MethodOrder, keep))

\* the routes list without the `rule.endpoint != 'static'` filter
RECURSIVE RoutesOfKeepsStatic(_)
RoutesOfKeepsStatic(rules) ==
    IF Len(rules) = 0 THEN <<>>
    ELSE <<[endpoint |-> rules[1].endpoint,
            methods |-> MethodsString(rules[1].methods),
            path |-> rules[1].path]>> \o RoutesOfKeepsStatic(Tail(rules))

\* the routes list built from iter_rules(): 'static' endpoints dropped
RECURSIVE RoutesOf(_)
RoutesOf(rules) ==
    IF Len(rules) = 0 THEN <<>>
    ELSE (IF rules[1].endpoint # "static"
          THEN <<[endpoint |-> rules[1].endpoint,
                  methods |-> MethodsString(rules[1].methods),
                  path |-> rules[1].path]>>
          ELSE <<>>) \o RoutesOf(Tail(rules))

RECURSIVE RouteInfo(_)
RouteInfo(rs) ==
    IF Len(rs) = 0 THEN <<>>
    ELSE <<Line("info", "  - " \o rs[1].endpoint \o " " \o rs[1].methods \o " " \o rs[1].path)>>
         \o RouteInfo(Tail(rs))

test_no_duplicate_verify_signature(t) ==
    LET hdr == <<Line("test", "Issue #1: No duplicate /verify_signature routes")>>
        isVerify(r) == r.path = "/verify_signature"
        verify_routes == SelectSeq(RoutesOf(t.routes), isVerify)
    IN  IF ~t.importable THEN Caught(hdr \o <<Line("fail", "Error testing routes")>>)
        ELSE IF Len(verify_routes) = 0
        THEN Returned(FALSE, hdr \o <<Line("fail", "No /verify_signature route found!")>>)
        ELSE IF Len(verify_routes) = 1
        THEN LET one == <<Line("ok", "Only ONE /verify_signature route exists: "
                                      \o verify_routes[1].endpoint \o " " \o verify_routes[1].methods)>>
             IN  IF Contains(verify_routes[1].methods, "POST")
                 THEN Returned(TRUE, hdr \o one \o <<Line("ok", "Route accepts POST method")>>)
                 ELSE Returned(FALSE, hdr \o one \o
                        <<Line("fail", "Route does not accept POST: " \o verify_routes[1].methods)>>)
        ELSE Returned(FALSE, hdr \o
               <<Line("fail", "Found " \o ToString(Len(verify_routes)) \o " duplicate /verify_signature routes:")>>
               \o RouteInfo(verify_routes))

\* attribute names a target module may carry, in sorted() order
MemberNames == <<"ClientManager", "OAuthServer", "add_chat_message", "get_chat_history", "login",
                 "purge_old_chat_messages", "verify_signature", "verify_signature_legacy">>

InList(x, ls) == \E i \in 1..Len(ls) : ls[i] = x

\* the rule without the inspect.isfunction filter: any member counts
test_verify_signature_functionAnyMember(t) ==
    LET hdr == <<Line("test", "Issue #1: Verify signature function is unique")>>
        isVerifyFunc(name) == name \in DOMAIN t.members /\ Contains(name, "verify_signature")
        verify_funcs == SelectSeq(MemberNames, isVerifyFunc)
        info == <<Line("info", "Functions matching 'verify_signature': " \o Join(verify_funcs))>>
    IN  IF ~t.importable THEN Caught(hdr \o <<Line("fail", "Error checking functions")>>)
        ELSE IF ~InList("verify_signature", verify_funcs)
        THEN Returned(FALSE, hdr \o info \o <<Line("fail", "verify_signature function not found")>>)
        ELSE IF InList("verify_signature_legacy", verify_funcs)
        THEN Returned(FALSE, hdr \o info \o
               <<Line("ok", "verify_signature function exists"),
                 Line("fail", "verify_signature_legacy function still exists (should be deleted)")>>)
        ELSE Returned(TRUE, hdr \o info \o
               <<Line("ok", "verify_signature function exists"),
                 Line("ok", "verify_signature_legacy function deleted (correct)")>>)

test_verify_signature_function(t) ==
    LET hdr == <<Line("test", "Issue #1: Verify signature function is unique")>>
        isVerifyFunc(name) == /\ name \in DOMAIN t.members
                              /\ t.members[name].kind = "function"
                              /\ Contains(name, "verify_signature")
        verify_funcs == SelectSeq(MemberNames, isVerifyFunc)
        info == <<Line("info", "Functions matching 'verify_signature': " \o Join(verify_funcs))>>
    IN  IF ~t.importable THEN Caught(hdr \o <<Line("fail", "Error checking functions")>>)
        ELSE IF ~InList("verify_signature", verify_funcs)
        THEN Returned(FALSE, hdr \o info \o <<Line("fail", "verify_signature function not found")>>)
        ELSE IF InList("verify_signature_legacy", verify_funcs)
        THEN Returned(FALSE, hdr \o info \o
               <<Line("ok", "verify_signature function exists"),
                 Line("fail", "verify_signature_legacy function still exists (should be deleted)")>>)
        ELSE Returned(TRUE, hdr \o info \o
               <<Line("ok", "verify_signature function exists"),
                 Line("ok", "verify_signature_legacy function deleted (correct)")>>)

\* inspect.getsource(app_module.<cls>.<meth>): raises when the attribute is missing
HasMethod(t, cls, meth) == cls \in DOMAIN t.members /\ meth \in DOMAIN t.members[cls].methods
MethodSource(t, cls, meth) == t.members[cls].methods[meth]

\* inspect.getsource(app_module.<name>): raises unless it is a function with source
HasFunctionSource(t, name) == name \in DOMAIN t.members /\ t.members[name].kind = "function"
FunctionSource(t, name) == t.members[name].src

\* a chain of sub-checks: each step is [pat, must, ok, bad, kind]; a "fail" step
\* that misses prints bad and stops the rule with False, a "warn" step that
\* misses prints bad and goes on.  must = FALSE inverts the test (forbidden text).
RECURSIVE Chain(_, _)
Chain(steps, acc) ==
    IF Len(steps) = 0 THEN Returned(TRUE, acc)
    ELSE LET st == steps[1]
         IN  IF ~st.avail THEN Caught(acc \o <<Line("fail", st.err)>>)
             ELSE IF Contains(st.text, st.pat) = st.must
             THEN Chain(Tail(steps), acc \o <<Line("ok", st.ok)>>)
             ELSE IF st.kind = "fail"
             THEN Returned(FALSE, acc \o <<Line("fail", st.bad)>>)
             ELSE Chain(Tail(steps), acc \o <<Line("warn", st.bad)>>)

\* one sub-check on the source of <cls>.<meth>
OnMethod(t, cls, meth, pat, must, okMsg, badMsg, err) ==
    [avail |-> HasMethod(t, cls, meth),
     text |-> IF HasMethod(t, cls, meth) THEN MethodSource(t, cls, meth) ELSE "",
     pat |-> pat, must |-> must, ok |-> okMsg, bad |-> badMsg, kind |-> "fail", err |-> err]

\* one sub-check on the source of the module-level function <name>
OnFunction(t, name, pat, kind, okMsg, badMsg, err) ==
    [avail |-> HasFunctionSource(t, name),
     text |-> IF HasFunctionSource(t, name) THEN FunctionSource(t, name) ELSE "",
     pat |-> pat, must |-> TRUE, ok |-> okMsg, bad |-> badMsg, kind |-> kind, err |-> err]

test_oauth_storage_postgresql(t) ==
    LET hdr == <<Line("test", "Issue #2: OAuth storage uses PostgreSQL")>>
        err == "Error testing OAuth storage"
    IN  IF ~t.importable \/ ~t.dbStorage THEN Caught(hdr \o <<Line("fail", err)>>)
        ELSE Chain(<<
            OnMethod(t, "ClientManager", "register_client", "store_oauth_client", TRUE,
                     "ClientManager.register_client uses store_oauth_client() (PostgreSQL)",
                     "ClientManager.register_client does NOT use store_oauth_client()", err),
            OnMethod(t, "ClientManager", "register_client", "get_storage()", FALSE,
                     "ClientManager.register_client does NOT use get_storage() (correct)",
                     "ClientManager.register_client still uses get_storage() (in-memory)", err),
            OnMethod(t, "ClientManager", "authenticate_client", "get_oauth_client", TRUE,
                     "ClientManager.authenticate_client uses get_oauth_client() (PostgreSQL)",
                     "ClientManager.authenticate_client does NOT use get_oauth_client()", err),
            OnMethod(t, "ClientManager", "authenticate_client", "get_storage()", FALSE,
                     "ClientManager.authenticate_client does NOT use get_storage() (correct)",
                     "ClientManager.authenticate_client still uses get_storage()", err)>>, hdr)

test_oauth_code_storage(t) ==
    LET hdr == <<Line("test", "Issue #2: OAuth authorization codes use PostgreSQL")>>
        err == "Error testing OAuth code storage"
    IN  IF ~t.importable THEN Caught(hdr \o <<Line("fail", err)>>)
        ELSE Chain(<<
            OnMethod(t, "OAuthServer", "authorization_endpoint", "store_oauth_code", TRUE,
                     "OAuthServer.authorization_endpoint uses store_oauth_code() (PostgreSQL)",
                     "OAuthServer.authorization_endpoint does NOT use store_oauth_code()", err),
            OnMethod(t, "OAuthServer", "authorization_endpoint", "get_storage()", FALSE,
                     "OAuthServer.authorization_endpoint does NOT use get_storage() (correct)",
                     "OAuthServer.authorization_endpoint still uses get_storage()", err),
            OnMethod(t, "OAuthServer", "_handle_code_grant", "get_oauth_code", TRUE,
                     "OAuthServer._handle_code_grant uses get_oauth_code() (PostgreSQL)",
                     "OAuthServer._handle_code_grant does NOT use get_oauth_code()", err),
            OnMethod(t, "OAuthServer", "_handle_code_grant", "delete_oauth_code", TRUE,
                     "OAuthServer._handle_code_grant uses delete_oauth_code() (PostgreSQL)",
                     "OAuthServer._handle_code_grant does NOT use delete_oauth_code()", err)>>, hdr)

\* the hasattr loop of test_chat_history_redis_functions: stops at the first miss
RECURSIVE HasAttrLoop(_, _, _)
HasAttrLoop(t, names, acc) ==
    IF Len(names) = 0 THEN [ok |-> TRUE, lines |-> acc]
    ELSE IF names[1] \in DOMAIN t.members
    THEN HasAttrLoop(t, Tail(names), acc \o <<Line("ok", names[1] \o "() function exists")>>)
    ELSE [ok |-> FALSE, lines |-> acc \o <<Line("fail", names[1] \o "() function NOT found")>>]

test_chat_history_redis_functions(t) ==
    LET hdr == <<Line("test", "Issue #3: Chat history Redis functions exist")>>
        err == "Error testing chat history functions"
        attrs == HasAttrLoop(t, <<"get_chat_history", "add_chat_message", "purge_old_chat_messages">>, hdr)
    IN  IF ~t.importable THEN Caught(hdr \o <<Line("fail", err)>>)
        ELSE IF ~attrs.ok THEN Returned(FALSE, attrs.lines)
        ELSE Chain(<<
            OnFunction(t, "get_chat_history", "get_redis()", "fail",
                       "get_chat_history() uses get_redis()",
                       "get_chat_history() does NOT use get_redis()", err),
            OnFunction(t, "get_chat_history", "redis_client.lrange", "warn",
                       "get_chat_history() uses Redis LRANGE (correct)",
                       "get_chat_history() may not use Redis LRANGE", err),
            OnFunction(t, "add_chat_message", "get_redis()", "fail",
                       "add_chat_message() uses get_redis()",
                       "add_chat_message() does NOT use get_redis()", err),
            OnFunction(t, "add_chat_message", "redis_client.lpush", "warn",
                       "add_chat_message() uses Redis LPUSH (correct)",
                       "add_chat_message() may not use Redis LPUSH", err),
            OnFunction(t, "add_chat_message", "redis_client.ltrim", "warn",
                       "add_chat_message() uses Redis LTRIM for size limit (correct)",
                       "add_chat_message() may not use Redis LTRIM", err)>>, attrs.lines)

\* the scan of test_chat_message_handler for CHAT_HISTORY.append outside the
\* helper functions; i is the 1-based line number, in_function the flag
\* the scan without the in_function flag: helper bodies are not exempt
RECURSIVE BadAppendsNoRegion(_, _, _)
BadAppendsNoRegion(lines, i, in_function) ==
    IF i > Len(lines) THEN <<>>
    ELSE LET line == lines[i]
             bad == /\ Contains(line, "CHAT_HISTORY.append")
                    /\ ~Contains(line, "# Fallback")
                    /\ ~InList("add_chat_message",
                               SubSeq(lines, Max(1, i - AppendContextLines + 1), i))
         IN  (IF bad THEN <<[num |-> i, line |-> Strip(line)]>> ELSE <<>>)
             \o BadAppendsNoRegion(lines, i + 1, in_function)

RECURSIVE BadAppends(_, _, _)
BadAppends(lines, i, in_function) ==
    IF i > Len(lines) THEN <<>>
    ELSE LET line == lines[i]
             inf == IF Contains(line, "def add_chat_message")
                       \/ Contains(line, "def purge_old_chat_messages")
                    THEN TRUE
                    ELSE IF StartsWith(line, "def ") \/ StartsWith(line, "class ")
                    THEN FALSE
                    ELSE in_function
             bad == /\ Contains(line, "CHAT_HISTORY.append")
                    /\ ~inf
                    /\ ~Contains(line, "# Fallback")
                    /\ ~InList("add_chat_message",
                               SubSeq(lines, Max(1, i - AppendContextLines + 1), i))
         IN  (IF bad THEN <<[num |-> i, line |-> Strip(line)]>> ELSE <<>>)
             \o BadAppends(lines, i + 1, inf)

RECURSIVE AppendInfo(_)
AppendInfo(bad) ==
    IF Len(bad) = 0 THEN <<>>
    ELSE <<Line("info", "  Line " \o ToString(bad[1].num) \o ": " \o bad[1].line)>>
         \o AppendInfo(Tail(bad))

test_chat_message_handler(t, rd) ==
    LET hdr == <<Line("test", "Issue #3: WebSocket handler uses new chat functions")>>
        err == <<Line("fail", "Error testing message handler")>>
    IN  IF ~t.importable \/ ~rd.ok THEN Caught(hdr \o err)
        ELSE IF ~Contains(rd.text, "add_chat_message(")
        THEN Returned(FALSE, hdr \o <<Line("fail", "WebSocket handler does NOT use add_chat_message()")>>)
        ELSE LET used == <<Line("ok", "WebSocket handler uses add_chat_message() (correct)")>>
                 bad_appends == BadAppends(Split(rd.text), 1, FALSE)
             IN  IF Len(bad_appends) > 0
                 THEN Returned(TRUE, hdr \o used \o
                        <<Line("warn", "Found " \o ToString(Len(bad_appends))
                               \o " direct CHAT_HISTORY.append calls outside helper functions:")>>
                        \o AppendInfo(SubSeq(bad_appends, 1,
                                             IF Len(bad_appends) < PreviewCount
                                             THEN Len(bad_appends) ELSE PreviewCount)))
                 ELSE Returned(TRUE, hdr \o used \o
                        <<Line("ok", "No direct CHAT_HISTORY.append calls outside helper functions (correct)")>>)

test_chat_history_deprecated(rd) ==
    LET hdr == <<Line("test", "Issue #3: CHAT_HISTORY marked as DEPRECATED")>>
    IN  IF ~rd.ok THEN Caught(hdr \o <<Line("fail", "Error checking DEPRECATED marking")>>)
        ELSE IF /\ Contains(rd.text, "DEPRECATED")
                /\ Contains(rd.text, "CHAT_HISTORY")
                /\ MarkedDeprecated(rd.text, "CHAT_HISTORY: List")
        THEN Returned(TRUE, hdr \o <<Line("ok", "CHAT_HISTORY is marked as DEPRECATED (correct)")>>)
        ELSE Returned(TRUE, hdr \o <<Line("warn", "CHAT_HISTORY may not be clearly marked as DEPRECATED")>>)

(***************************************************************************)
(* The rule catalogs of the two main() functions, in order.                *)
(***************************************************************************)
\* tests = [...] of tests/test_static_analysis.py: the keys are t.__name__
StaticTests ==
    <<"test_issue1_no_duplicate_routes", "test_issue1_no_legacy_function",
      "test_issue1_finish_login_used", "test_issue2_no_get_storage_calls",
      "test_issue2_uses_store_oauth_client", "test_issue2_uses_get_oauth_client",
      "test_issue2_uses_oauth_code_functions", "test_issue2_deprecated_stores_marked",
      "test_issue3_redis_functions_exist", "test_issue3_get_redis_import",
      "test_issue3_redis_operations_used", "test_issue3_add_chat_message_used",
      "test_issue3_get_chat_history_used", "test_issue3_chat_history_deprecated">>

\* all_tests = [...] of tests/test_critical_fixes.py: the keys are the test names
DynamicTests ==
    <<"Issue #1: No duplicate routes", "Issue #1: Function uniqueness",
      "Issue #2: OAuth client storage", "Issue #2: OAuth code storage",
      "Issue #3: Redis functions", "Issue #3: Message handler",
      "Issue #3: Deprecation marking">>

Catalog(h) == IF h = "static" THEN StaticTests ELSE DynamicTests
\* the tests / all_tests list of main(), as positions of the catalog
ListedOrder(h) == [k \in 1..Len(Catalog(h)) |-> k]

\* t() for the k-th entry of tests
StaticCall(k, rd) ==
    CASE k = 1 -> test_issue1_no_duplicate_routes(rd)
      [] k = 2 -> test_issue1_no_legacy_function(rd)
      [] k = 3 -> test_issue1_finish_login_used(rd)
      [] k = 4 -> test_issue2_no_get_storage_calls(rd)
      [] k = 5 -> test_issue2_uses_store_oauth_client(rd)
      [] k = 6 -> test_issue2_uses_get_oauth_client(rd)
      [] k = 7 -> test_issue2_uses_oauth_code_functions(rd)
      [] k = 8 -> test_issue2_deprecated_stores_marked(rd)
      [] k = 9 -> test_issue3_redis_functions_exist(rd)
      [] k = 10 -> test_issue3_get_redis_import(rd)
      [] k = 11 -> test_issue3_redis_operations_used(rd)
      [] k = 12 -> test_issue3_add_chat_message_used(rd)
      [] k = 13 -> test_issue3_get_chat_history_used(rd)
      [] OTHER -> test_issue3_chat_history_deprecated(rd)

\* test_func() for the k-th entry of all_tests
DynamicCall(k, t, rd) ==
    CASE k = 1 -> test_no_duplicate_verify_signature(t)
      [] k = 2 -> test_verify_signature_function(t)
      [] k = 3 -> test_oauth_storage_postgresql(t)
      [] k = 4 -> test_oauth_code_storage(t)
      [] k = 5 -> test_chat_history_redis_functions(t)
      [] k = 6 -> test_chat_message_handler(t, rd)
      [] OTHER -> test_chat_history_deprecated(rd)

\* whether the k-th dynamic rule gets as far as opening app/app.py
DynamicOpens(k, t) == (k = 6 /\ t.importable) \/ k = 7

(***************************************************************************)
(* main(): the results dict, the summary, the exit code.                   *)
(***************************************************************************)
\* a dict in insertion order: results[name] = val
DictSet(d, name, val) ==
    IF \E i \in 1..Len(d) : d[i].name = name
    THEN [i \in 1..Len(d) |-> IF d[i].name = name THEN [name |-> name, val |-> val] ELSE d[i]]
    ELSE Append(d, [name |-> name, val |-> val])

\* sum(1 for r in results.values() if r)
Passed(d) == Cardinality({ i \in 1..Len(d) : d[i].val })

\* sum(1 for r in results.values() if not r)
NotPassed(d) == Cardinality({ i \in 1..Len(d) : ~d[i].val })

\* s.replace(a, b), scanning s from position i
RECURSIVE ReplaceFrom(_, _, _, _)
ReplaceFrom(s, i, a, b) ==
    IF i > Len(s) THEN ""
    ELSE IF MatchAt(s, i, a) THEN b \o ReplaceFrom(s, i + Len(a), a, b)
    ELSE SubSeq(s, i, i) \o ReplaceFrom(s, i + 1, a, b)

Replace(s, a, b) == ReplaceFrom(s, 1, a, b)

\* the PASS/FAIL lines of the summary, in dict order
RECURSIVE StatusLines(_, _)
StatusLines(d, clean) ==
    IF Len(d) = 0 THEN <<>>
    ELSE <<[status |-> IF d[1].val THEN "PASS" ELSE "FAIL",
            name |-> IF clean THEN Replace(Replace(d[1].name, "test_issue", "Issue #"), "_", " ")
                     ELSE d[1].name]>>
         \o StatusLines(Tail(d), clean)

NoSummary == [printed |-> FALSE, passed |-> 0, failed |-> 0, total |-> 0, exit |-> -1, lines |-> <<>>]

\* StaticSummary with the exit code taken from the pass count: a run with at
\* least one passing rule returns 0
StaticSummaryExitOnPasses(d) ==
    LET passed == Passed(d)
        total == Len(d)
        failed == total - passed
    IN  [printed |-> TRUE, passed |-> passed, failed |-> failed, total |-> total,
         exit |-> IF passed > 0 THEN 0 ELSE 1, lines |-> StatusLines(d, TRUE)]

\* the summary block and return value of tests/test_static_analysis.py main()
StaticSummary(d) ==
    LET passed == Passed(d)
        total == Len(d)
        failed == total - passed
    IN  [printed |-> TRUE, passed |-> passed, failed |-> failed, total |-> total,
         exit |-> IF failed = 0 THEN 0 ELSE 1, lines |-> StatusLines(d, TRUE)]

\* the summary block and return value of tests/test_critical_fixes.py main()
DynamicSummary(d) ==
    LET passed == Passed(d)
        failed == NotPassed(d)
        total == Len(d)
    IN  [printed |-> TRUE, passed |-> passed, failed |-> failed, total |-> total,
         exit |-> IF failed = 0 THEN 0 ELSE 1, lines |-> StatusLines(d, FALSE)]

\* read_file that swallows the error of open() and hands out an empty text
read_fileSwallowsError(t, fault) ==
    IF t.file.exists /\ ~fault THEN [ok |-> TRUE, text |-> t.file.text]
    ELSE [ok |-> TRUE, text |-> ""]

\* read_file('app/app.py') / open('app/app.py').read(); fault: the read fails
\* although the file exists (it is replaced or locked at that moment)
read_file(t, fault) ==
    IF t.file.exists /\ ~fault THEN [ok |-> TRUE, text |-> t.file.text]
    ELSE [ok |-> FALSE, text |-> ""]

\* the lines a rule printed, tagged with the catalog entry that printed them
Tagged(name, lines) == [i \in 1..Len(lines) |-> [rule |-> name, kind |-> lines[i].kind, msg |-> lines[i].msg]]

\* Recorded without the `results[...] = False` of the except branch: the value
\* left for a crashed rule is truthy
RecordedCrashPasses(o) == IF o.raised THEN TRUE ELSE o.ret

\* the try/except around t() in main(): what is stored in results
Recorded(o) == IF o.raised THEN FALSE ELSE o.ret

\* the try/except around t() in main(): what is printed
Printed(name, o) ==
    Tagged(name, o.lines \o (IF o.raised THEN <<Line("fail", "Test crashed")>> ELSE <<>>))

FaultChoices(opens) ==
    IF faultsLeft > 0 /\ opens /\ target.file.exists THEN BOOLEAN ELSE {FALSE}

\* os.chdir(project root) at the top of the static main(): raises when the
\* directory is missing, and the exception leaves main()
StaticMainStart ==
    /\ pc = "start" /\ harness = "static"
    /\ pc' = IF target.rootExists THEN "loop" ELSE "aborted"
    /\ summary' = IF target.rootExists THEN summary ELSE [summary EXCEPT !.exit = 1]
    /\ UNCHANGED <<harness, target, tests, idx, results, out, reads, crashed, run, prev, faultsLeft>>

\* the loop with the text read once and kept for the later rules
StaticMainLoopCached ==
    /\ pc = "loop" /\ harness = "static" /\ idx <= Len(tests)
    /\ \E fault \in FaultChoices(reads = 0) :
        LET name == StaticTests[tests[idx]]
            rd == read_file(target, fault)
            o == StaticCall(tests[idx], rd)
        IN  /\ results' = DictSet(results, name, Recorded(o))
            /\ out' = out \o Printed(name, o)
            /\ reads' = IF reads = 0 /\ rd.ok THEN 1 ELSE reads
            /\ crashed' = IF o.exc THEN crashed \cup {name} ELSE crashed
            /\ faultsLeft' = IF fault THEN faultsLeft - 1 ELSE faultsLeft
    /\ idx' = idx + 1
    /\ UNCHANGED <<harness, target, tests, pc, summary, run, prev>>

\* the loop with one flag shared by the rules: a rule counts as passed only
\* if the rule before it did
StaticMainLoopSharedFlag ==
    /\ pc = "loop" /\ harness = "static" /\ idx <= Len(tests)
    /\ \E fault \in FaultChoices(TRUE) :
        LET name == StaticTests[tests[idx]]
            rd == read_file(target, fault)
            o == StaticCall(tests[idx], rd)
            before == idx = 1 \/ results[idx - 1].val
        IN  /\ results' = DictSet(results, name, Recorded(o) /\ before)
            /\ out' = out \o Printed(name, o)
            /\ reads' = reads + (IF rd.ok THEN 1 ELSE 0)
            /\ crashed' = IF o.exc THEN crashed \cup {name} ELSE crashed
            /\ faultsLeft' = IF fault THEN faultsLeft - 1 ELSE faultsLeft
    /\ idx' = idx + 1
    /\ UNCHANGED <<harness, target, tests, pc, summary, run, prev>>

\* one iteration of `for t in tests:` of the static main()
StaticMainLoop ==
    /\ pc = "loop" /\ harness = "static" /\ idx <= Len(tests)
    /\ \E fault \in FaultChoices(TRUE) :
        LET name == StaticTests[tests[idx]]
            rd == read_file(target, fault)
            o == StaticCall(tests[idx], rd)
        IN  /\ results' = DictSet(results, name, Recorded(o))
            /\ out' = out \o Printed(name, o)
            /\ reads' = reads + (IF rd.ok THEN 1 ELSE 0)
            /\ crashed' = IF o.exc THEN crashed \cup {name} ELSE crashed
            /\ faultsLeft' = IF fault THEN faultsLeft - 1 ELSE faultsLeft
    /\ idx' = idx + 1
    /\ UNCHANGED <<harness, target, tests, pc, summary, run, prev>>

\* the summary and return of the static main()
StaticMainSummary ==
    /\ pc = "loop" /\ harness = "static" /\ idx > Len(tests)
    /\ summary' = StaticSummary(results)
    /\ pc' = "done"
    /\ UNCHANGED <<harness, target, tests, idx, results, out, reads, crashed, run, prev, faultsLeft>>

\* the banner of the dynamic main(); it does not change directory
DynamicMainStart ==
    /\ pc = "start" /\ harness = "dynamic"
    /\ pc' = "loop"
    /\ UNCHANGED <<harness, target, tests, idx, results, out, reads, crashed, summary, run, prev, faultsLeft>>

\* one iteration of `for test_name, test_func in all_tests:` of the dynamic main()
DynamicMainLoop ==
    /\ pc = "loop" /\ harness = "dynamic" /\ idx <= Len(tests)
    /\ \E fault \in FaultChoices(DynamicOpens(tests[idx], target)) :
        LET name == DynamicTests[tests[idx]]
            rd == read_file(target, fault)
            o == DynamicCall(tests[idx], target, rd)
        IN  /\ results' = DictSet(results, name, Recorded(o))
            /\ out' = out \o Printed(name, o)
            /\ reads' = reads + (IF DynamicOpens(tests[idx], target) /\ rd.ok THEN 1 ELSE 0)
            /\ crashed' = IF o.exc THEN crashed \cup {name} ELSE crashed
            /\ faultsLeft' = IF fault THEN faultsLeft - 1 ELSE faultsLeft
    /\ idx' = idx + 1
    /\ UNCHANGED <<harness, target, tests, pc, summary, run, prev>>

\* the summary and return of the dynamic main()
DynamicMainSummary ==
    /\ pc = "loop" /\ harness = "dynamic" /\ idx > Len(tests)
    /\ summary' = DynamicSummary(results)
    /\ pc' = "done"
    /\ UNCHANGED <<harness, target, tests, idx, results, out, reads, crashed, run, prev, faultsLeft>>

NoPrev == [results |-> <<>>, exit |-> -1, printed |-> FALSE]

\* a second run that finds the catalog of the first run used up
RerunKeepsPosition ==
    /\ pc \in {"done", "aborted"} /\ run < MaxRuns
    /\ prev' = [results |-> results, exit |-> summary.exit, printed |-> summary.printed]
    /\ run' = run + 1
    /\ pc' = "start" /\ results' = <<>> /\ out' = <<>> /\ reads' = 0
    /\ crashed' = {} /\ summary' = NoSummary
    /\ UNCHANGED <<harness, target, tests, faultsLeft, idx>>

\* the script is invoked again right after it exited (sys.exit(main())): a new
\* process, so nothing of the finished run is kept but the target
Rerun ==
    /\ pc \in {"done", "aborted"} /\ run < MaxRuns
    /\ prev' = [results |-> results, exit |-> summary.exit, printed |-> summary.printed]
    /\ run' = run + 1
    /\ pc' = "start" /\ idx' = 1 /\ results' = <<>> /\ out' = <<>> /\ reads' = 0
    /\ crashed' = {} /\ summary' = NoSummary
    /\ UNCHANGED <<harness, target, tests, faultsLeft>>

\* other orders of the same list: reversed, and rotated by up to MaxShift
Orders(h) ==
    LET seq == ListedOrder(h)
        reversed == [k \in 1..Len(seq) |-> seq[Len(seq) + 1 - k]]
        rotated(n) == [k \in 1..Len(seq) |-> seq[((k - 1 + n) % Len(seq)) + 1]]
    IN  {reversed} \cup { rotated(n) : n \in 1..MaxShift }

\* the script is invoked again with the entries of its list in another order
RerunPermuted ==
    /\ pc \in {"done", "aborted"} /\ run < MaxRuns
    /\ tests' \in Orders(harness)
    /\ prev' = [results |-> results, exit |-> summary.exit, printed |-> summary.printed]
    /\ run' = run + 1
    /\ pc' = "start" /\ idx' = 1 /\ results' = <<>> /\ out' = <<>> /\ reads' = 0
    /\ crashed' = {} /\ summary' = NoSummary
    /\ UNCHANGED <<harness, target, faultsLeft>>

(***************************************************************************)
(* The target artifact: candidate contents of app/app.py.                  *)
(***************************************************************************)
RoutePost == "@app.route('/verify_signature', methods=['POST'])\n"
RoutePlain == "@app.route(\"/verify_signature\")\n"
DefVerify == "def verify_signature():\n    return _finish_login(pk)\n"
DefVerifyBare == "def verify_signature():\n    return jsonify(ok=True)\n"
DefLegacy == "def verify_signature_legacy():\n    return verify_signature()\n"
DefLogin == "def login():\n    return render('login.html')\n"
ClassClient == "class ClientManager:\n    pass\n"
Filler == "#\n#\n#\n#\n#\n"
GetStorage == "    storage = get_storage()\n"
DefAddChat == "def add_chat_message(m):\n    redis_client = get_redis()\n"
DefPurge == "def purge_old_chat_messages():\n"
AppendCall == "    CHAT_HISTORY.append(m)\n"
AppendFallback == "    CHAT_HISTORY.append(m)  # Fallback\n"
BareName == "add_chat_message\n"
Imports == "from typing import Dict, List\nfrom app.database import get_redis\n"
Deprecated == "# DEPRECATED: in-memory stores, kept as a fallback\n"
Stores == "CHAT_HISTORY: List = []\nCLIENT_STORE: Dict = {}\nAUTH_CODE_STORE: Dict = {}\n"
OAuthGood == "class ClientManager:\n    def register_client(self, c):\n        store_oauth_client(c)\n    def authenticate_client(self, i):\n        return get_oauth_client(i)\nclass OAuthServer:\n    def authorization_endpoint(self, c):\n        store_oauth_code(c)\n    def _handle_code_grant(self, c):\n        get_oauth_code(c)\n        delete_oauth_code(c)\n"
OAuthLegacy == "class ClientManager:\n    def register_client(self, c):\n        get_storage().set(c)\n    def authenticate_client(self, i):\n        return get_storage().get(i)\n"
ChatGood == "def get_chat_history():\n    return get_redis().lrange(K, 0, -1)\ndef add_chat_message(m):\n    redis_client = get_redis()\n    redis_client.lpush(K, m)\n    redis_client.ltrim(K, 0, 99)\ndef purge_old_chat_messages():\n    redis_client = get_redis()\n    redis_client.lrange(K, 0, -1)\n"
ChatPlain == "def get_chat_history():\n    return get_redis().fetch(K)\ndef add_chat_message(m):\n    get_redis().push(K, m)\ndef purge_old_chat_messages():\n    pass\n"
SocketHandler == "@socketio.on('message')\ndef handle_message(m):\n    add_chat_message(m)\n"
ChatRoute == "@app.route('/chat')\ndef chat():\n    return render('chat.html', history=get_chat_history())\n"

\* the refactored application without message handler and chat page
AppRefactored == Imports \o Deprecated \o Stores \o RoutePlain \o DefVerify \o OAuthGood \o ChatGood
\* the same with advisory findings only: no Redis list calls, no _finish_login
AppAdvisory == Imports \o Deprecated \o Stores \o RoutePlain \o DefVerifyBare \o OAuthGood \o ChatPlain
\* the refactored application with its handlers
AppComplete == AppRefactored \o SocketHandler \o ChatRoute \o DefLogin
\* the application before the refactoring
AppLegacy == Stores \o RoutePost \o DefVerify \o RoutePost \o DefLegacy \o OAuthLegacy
             \o "def handle_message(m):\n" \o AppendCall

\* whole applications
AppTexts == {"", AppRefactored, AppAdvisory, AppComplete, AppLegacy}

\* chunk vocabularies, one per group of rules
FamRoutes == <<RoutePost, RoutePlain, DefVerify, DefLegacy, ClassClient>>
FamStorage == <<GetStorage, DefAddChat, DefLogin, Filler>>
FamChat == <<DefAddChat, DefPurge, DefLogin, AppendCall, AppendFallback, BareName>>
FamStores == <<Deprecated, Stores, Filler, Imports>>
\* the vocabularies of the text rules of each harness
Families(h) == IF h = "static" THEN {FamRoutes, FamStorage, FamStores} ELSE {FamChat, FamStores}

\* the concatenations of at most n chunks of fam
RECURSIVE Concats(_, _)
Concats(fam, n) ==
    IF n = 0 THEN {""}
    ELSE LET shorter == Concats(fam, n - 1)
         IN  shorter \cup { c \o fam[k] : c \in shorter, k \in 1..Len(fam) }

FragTexts(h) == UNION { Concats(fam, MaxFrags) : fam \in Families(h) }

(***************************************************************************)
(* The target artifact: the live application the dynamic rules import.     *)
(***************************************************************************)
NoMethods == [m \in {} |-> ""]
NoMembers == [m \in {} |-> [kind |-> "other", src |-> "", methods |-> NoMethods]]
Function(src) == [kind |-> "function", src |-> src, methods |-> NoMethods]
Class(methods) == [kind |-> "class", src |-> "", methods |-> methods]
Other == [kind |-> "other", src |-> "", methods |-> NoMethods]

ClientManagerGood ==
    Class("register_client" :> "def register_client(self, c):\n    store_oauth_client(c)\n"
          @@ "authenticate_client" :> "def authenticate_client(self, i):\n    return get_oauth_client(i)\n")
ClientManagerLegacy ==
    Class("register_client" :> "def register_client(self, c):\n    store_oauth_client(c)\n    get_storage().set(c)\n"
          @@ "authenticate_client" :> "def authenticate_client(self, i):\n    return get_storage().get(i)\n")
ClientManagerPartial ==
    Class("register_client" :> "def register_client(self, c):\n    store_oauth_client(c)\n")
ClientManagers ==
    {NoMembers, "ClientManager" :> ClientManagerGood, "ClientManager" :> ClientManagerLegacy,
     "ClientManager" :> ClientManagerPartial}

OAuthServerGood ==
    Class("authorization_endpoint" :> "def authorization_endpoint(self, c):\n    store_oauth_code(c)\n"
          @@ "_handle_code_grant" :> "def _handle_code_grant(self, c):\n    get_oauth_code(c)\n    delete_oauth_code(c)\n")
OAuthServerLegacy ==
    Class("authorization_endpoint" :> "def authorization_endpoint(self, c):\n    store_oauth_code(c)\n"
          @@ "_handle_code_grant" :> "def _handle_code_grant(self, c):\n    get_oauth_code(c)\n")
OAuthServers == {NoMembers, "OAuthServer" :> OAuthServerGood, "OAuthServer" :> OAuthServerLegacy}

GetHistoryGood == "def get_chat_history():\n    redis_client = get_redis()\n    return redis_client.lrange(K, 0, -1)\n"
GetHistoryPlain == "def get_chat_history():\n    return get_redis().fetch(K)\n"
AddMessageGood == "def add_chat_message(m):\n    redis_client = get_redis()\n    redis_client.lpush(K, m)\n    redis_client.ltrim(K, 0, 99)\n"
AddMessagePlain == "def add_chat_message(m):\n    get_redis().push(K, m)\n"
AddMessageMemory == "def add_chat_message(m):\n    CHAT_HISTORY.append(m)\n"
ChatMembers(get, add) ==
    "get_chat_history" :> get @@ "add_chat_message" :> add
    @@ "purge_old_chat_messages" :> Function("def purge_old_chat_messages():\n    pass\n")
ChatGoodLive == ChatMembers(Function(GetHistoryGood), Function(AddMessageGood))
ChatPlainLive == ChatMembers(Function(GetHistoryPlain), Function(AddMessagePlain))
ChatFunctions ==
    {NoMembers, ChatGoodLive, ChatPlainLive,
     ChatMembers(Function(GetHistoryGood), Function(AddMessageMemory)),
     ChatMembers(Other, Function(AddMessageGood)),
     "get_chat_history" :> Function(GetHistoryGood)}

\* verify_signature and verify_signature_legacy: absent, a function, or another object
VerifyKinds == {"absent", "function", "other"}
VerifyMember(name, k) ==
    IF k = "absent" THEN NoMembers
    ELSE name :> (IF k = "function" THEN Function("def " \o name \o "():\n    pass\n") ELSE Other)
VerifyMembers(k1, k2) ==
    VerifyMember("verify_signature", k1) @@ VerifyMember("verify_signature_legacy", k2)

\* registrations of the url map
RuleVerifyPost == [endpoint |-> "verify_signature", methods |-> {"POST", "OPTIONS"}, path |-> "/verify_signature"]
RuleVerifyGet == [endpoint |-> "verify_signature", methods |-> {"GET", "HEAD", "OPTIONS"}, path |-> "/verify_signature"]
RuleLegacyBoth == [endpoint |-> "verify_signature_legacy", methods |-> {"GET", "POST", "HEAD", "OPTIONS"},
                   path |-> "/verify_signature"]
RuleStatic == [endpoint |-> "static", methods |-> {"GET", "HEAD", "OPTIONS"}, path |-> "/static/<path:filename>"]
RuleStaticVerify == [endpoint |-> "static", methods |-> {"POST", "OPTIONS"}, path |-> "/verify_signature"]
RuleLogin == [endpoint |-> "login", methods |-> {"POST", "OPTIONS"}, path |-> "/login"]
UrlRules == <<RuleVerifyPost, RuleVerifyGet, RuleLegacyBoth, RuleStatic, RuleStaticVerify, RuleLogin>>

\* the url maps of at most n registrations
RECURSIVE UrlMaps(_)
UrlMaps(n) ==
    IF n = 0 THEN {<<>>}
    ELSE LET shorter == UrlMaps(n - 1)
         IN  shorter \cup { Append(m, UrlRules[k]) : m \in shorter, k \in 1..Len(UrlRules) }

File(text) == [exists |-> TRUE, text |-> text]
NoFile == [exists |-> FALSE, text |-> ""]

\* what the static harness is run against: the project root and app/app.py
StaticTarget(root, file) ==
    [rootExists |-> root, file |-> file, importable |-> FALSE, dbStorage |-> FALSE,
     routes |-> <<>>, members |-> NoMembers]

\* what the dynamic harness is run against: app/app.py in the working
\* directory and the importable application
DynamicTarget(file, importable, db, routes, members) ==
    [rootExists |-> TRUE, file |-> file, importable |-> importable, dbStorage |-> db,
     routes |-> routes, members |-> members]

GoodMembers ==
    VerifyMembers("function", "absent") @@ ("ClientManager" :> ClientManagerGood)
    @@ ("OAuthServer" :> OAuthServerGood) @@ ChatGoodLive
GoodRoutes == <<RuleStatic, RuleVerifyPost, RuleLogin>>

\* targets of whole runs
MainTargets(h) ==
    IF h = "static"
    THEN {StaticTarget(FALSE, NoFile), StaticTarget(TRUE, NoFile)}
         \cup { StaticTarget(TRUE, File(x)) : x \in AppTexts }
    ELSE { DynamicTarget(f, FALSE, FALSE, <<>>, NoMembers) : f \in {NoFile, File(AppRefactored)} }
         \cup { DynamicTarget(f, TRUE, db, r, VerifyMembers("function", k) @@ cm @@ os @@ ch) :
                  f \in {NoFile, File(Deprecated \o Stores \o ChatGood), File(Stores \o DefLogin \o AppendCall)},
                  db \in BOOLEAN,
                  r \in {GoodRoutes, <<RuleVerifyPost, RuleLegacyBoth>>},
                  k \in {"absent", "function"},
                  cm \in {"ClientManager" :> ClientManagerGood, "ClientManager" :> ClientManagerLegacy},
                  os \in {"OAuthServer" :> OAuthServerGood, NoMembers},
                  ch \in {ChatGoodLive, ChatPlainLive, NoMembers} }

\* targets that vary one surface at a time, for the single rules
RuleTargets(h) ==
    IF h = "static"
    THEN { StaticTarget(TRUE, File(x)) : x \in FragTexts(h) \cup AppTexts }
    ELSE { DynamicTarget(File(x), TRUE, TRUE, GoodRoutes, GoodMembers) : x \in FragTexts(h) \cup AppTexts }
         \cup { DynamicTarget(File(DefAddChat), TRUE, TRUE, r, GoodMembers) : r \in UrlMaps(MaxRoutes) }
         \cup { DynamicTarget(File(DefAddChat), TRUE, TRUE, GoodRoutes,
                              VerifyMembers(k1, k2) @@ cm @@ os @@ ch) :
                  k1 \in VerifyKinds, k2 \in VerifyKinds,
                  cm \in {"ClientManager" :> ClientManagerGood},
                  os \in {"OAuthServer" :> OAuthServerGood}, ch \in {ChatGoodLive} }
         \cup { DynamicTarget(File(DefAddChat), TRUE, TRUE, GoodRoutes,
                              VerifyMembers("function", "absent") @@ cm @@ os @@ ch) :
                  cm \in ClientManagers, os \in OAuthServers, ch \in ChatFunctions }

Harnesses == {"static", "dynamic"}

\* main() is entered: nothing run, nothing printed
InitRun(h, t, f) ==
    /\ harness = h /\ target = t /\ faultsLeft = f /\ tests = ListedOrder(h)
    /\ pc = "start" /\ idx = 1 /\ results = <<>> /\ out = <<>> /\ reads = 0
    /\ crashed = {} /\ summary = NoSummary /\ run = 1 /\ prev = NoPrev

Init == \E h \in Harnesses : \E t \in MainTargets(h) : InitRun(h, t, MaxFaults)

InitRerun == \E h \in Harnesses : \E t \in MainTargets(h) : InitRun(h, t, 0)

InitRules == \E h \in Harnesses : \E t \in RuleTargets(h) : InitRun(h, t, 0)

Next ==
    \/ StaticMainStart \/ StaticMainLoop \/ StaticMainSummary
    \/ DynamicMainStart \/ DynamicMainLoop \/ DynamicMainSummary

NextRerun == Next \/ Rerun

\* one run of either harness; the environment may fail reads
Spec == Init /\ [][Next]_vars

\* runs in immediate succession against an unchanged target
SpecRerun == InitRerun /\ [][NextRerun]_vars

\* one run of either harness over the input families of the rules
SpecRules == InitRules /\ [][Next]_vars

NextOrder == Next \/ RerunPermuted

\* a run with the list as written, then a run with the list in another order
SpecOrder == InitRerun /\ [][NextOrder]_vars

(***************************************************************************)
(* Properties.                                                             *)
(***************************************************************************)
\* the verdicts recorded as FAIL
FailVerdicts == { i \in 1..Len(results) : results[i].val = FALSE }
\* the catalog entries that have a verdict
Judged == { results[i].name : i \in 1..Len(results) }
CatalogNames(h) == { Catalog(h)[k] : k \in 1..Len(Catalog(h)) }

\* C1: in both harnesses, whatever the verdicts of the rules, main returns 0
\* when no rule is FAIL and 1 when at least one is, and the failed count of the
\* summary is exactly the number of rules whose verdict is FAIL.
C1_ExitCodeCountsFails ==
    pc = "done" =>
        /\ summary.printed
        /\ summary.failed = Cardinality(FailVerdicts)
        /\ (FailVerdicts = {} => summary.exit = 0)
        /\ (FailVerdicts # {} => summary.exit = 1)

\* a finished run with several FAIL verdicts among passing rules, some of
\* which only warned
C1_Witness ==
    /\ pc = "done" /\ summary.exit = 1
    /\ Cardinality(FailVerdicts) >= 2 /\ summary.passed >= 2
    /\ \E i \in 1..Len(out) : out[i].kind = "warn"
                              /\ \E j \in 1..Len(results) : results[j].name = out[i].rule /\ results[j].val

\* C2: a rule whose evaluation raises is recorded as FAIL, the rest of the
\* catalog still runs and gets verdicts, the total of the summary is the size
\* of the catalog (14 static, 7 dynamic), and the exception does not leave
\* main.
C2_RuleIsolation ==
    /\ \A i \in 1..Len(results) : results[i].name \in crashed => results[i].val = FALSE
    /\ crashed \subseteq Judged
    /\ (crashed # {} => pc # "aborted")
    /\ (pc = "loop" => idx = Len(results) + 1 /\ idx <= Len(Catalog(harness)) + 1)
    /\ (pc = "done" =>
            /\ Judged = CatalogNames(harness)
            /\ summary.total = (IF harness = "static" THEN 14 ELSE 7)
            /\ Len(results) = summary.total)

\* a finished run in which one rule raised and rules after it still passed
C2_Witness ==
    /\ pc = "done" /\ Cardinality(crashed) = 1
    /\ \E i, j \in 1..Len(results) :
          i < j /\ results[i].name \in crashed /\ results[j].val = TRUE

\* C3 as stated: when app/app.py cannot be read the run aborts, no rule gets
\* a verdict and no summary is produced.
C3_ReadErrorAborts ==
    ~target.file.exists => (results = <<>> /\ ~summary.printed)

\* C3 amended: a missing app/app.py does not abort the run. In the static
\* harness each of the 14 rules raises at its own read, is caught by main and
\* recorded as FAIL; in the dynamic harness the two rules that open the file
\* return False; in both the summary is printed and the exit code is 1. A
\* static run aborts only when the project root is missing (os.chdir raises
\* before the loop), and then no rule has run and no summary is printed.
C3_ReadErrorPerRule ==
    /\ (pc = "done" /\ ~target.file.exists) =>
            /\ summary.printed /\ summary.exit = 1
            /\ (harness = "static" =>
                    summary.total = 14 /\ summary.passed = 0 /\ crashed = CatalogNames("static"))
            /\ (harness = "dynamic" =>
                    /\ summary.total = 7
                    /\ \A i \in 1..Len(results) :
                          results[i].name \in {DynamicTests[6], DynamicTests[7]} => ~results[i].val)
    /\ (pc = "aborted" <=> (harness = "static" /\ ~target.rootExists /\ pc # "start"))
    /\ (pc = "aborted" => results = <<>> /\ ~summary.printed /\ summary.exit = 1)

\* a finished static run over a missing app/app.py
C3_Witness ==
    /\ pc = "done" /\ harness = "static" /\ ~target.file.exists /\ summary.printed
    /\ Len(results) = 14

HasVerdict(name) == \E i \in 1..Len(results) : results[i].name = name
Verdict(name) == results[CHOOSE i \in 1..Len(results) : results[i].name = name].val
LinesOf(name) == LET mine(l) == l.rule = name IN SelectSeq(out, mine)
\* a rule has run to a verdict without raising or catching an exception
Settled(name) == HasVerdict(name) /\ name \notin crashed
HasLine(ls, kind, part) == \E i \in 1..Len(ls) : ls[i].kind = kind /\ Contains(ls[i].msg, part)

\* the places of the text where the route decorator of /verify_signature starts
RouteDecorators(s) ==
    { i \in 1..Len(s) : /\ MatchAt(s, i, "@app.route(")
                        /\ \E q1, q2 \in Quotes : MatchAt(s, i + 11, q1 \o "/verify_signature" \o q2) }

\* C4 as stated: test_issue1_no_duplicate_routes gives PASS for exactly one
\* match of the decorator pattern, FAIL with a 'missing' message for none, and
\* for two or more FAIL with a 'duplicate' message that lists each match
\* location.
C4_DuplicatesListed ==
    (harness = "static" /\ Settled(StaticTests[1])) =>
        LET n == Cardinality(RouteDecorators(target.file.text))
            ls == LinesOf(StaticTests[1])
        IN  /\ (n = 1 => Verdict(StaticTests[1]))
            /\ (n = 0 => ~Verdict(StaticTests[1]) /\ HasLine(ls, "fail", "No /verify_signature route found"))
            /\ (n >= 2 => /\ ~Verdict(StaticTests[1])
                          /\ HasLine(ls, "fail", "duplicate")
                          /\ Len(ls) >= 2 + n)

\* C4 amended: exactly one match gives PASS, no match gives FAIL with the
\* 'missing' message, two or more give FAIL with a 'duplicate' message that
\* states the number of matches; no match location is printed.
C4_DuplicatesCounted ==
    (harness = "static" /\ Settled(StaticTests[1])) =>
        LET n == Cardinality(RouteDecorators(target.file.text))
            ls == LinesOf(StaticTests[1])
        IN  /\ Len(ls) = 2 /\ ls[1].kind = "test"
            /\ (n = 1 => Verdict(StaticTests[1]) /\ ls[2].kind = "ok")
            /\ (n = 0 => /\ ~Verdict(StaticTests[1])
                         /\ ls[2] = [rule |-> StaticTests[1], kind |-> "fail",
                                      msg |-> "No /verify_signature route found!"])
            /\ (n >= 2 => /\ ~Verdict(StaticTests[1])
                          /\ ls[2] = [rule |-> StaticTests[1], kind |-> "fail",
                                       msg |-> "Found " \o ToString(n) \o " duplicate /verify_signature routes!"])

\* the rule has judged a text with three decorators, in both quote styles
C4_Witness ==
    /\ harness = "static" /\ Settled(StaticTests[1]) /\ ~Verdict(StaticTests[1])
    /\ Cardinality(RouteDecorators(target.file.text)) = 3
    /\ Contains(target.file.text, RoutePlain) /\ Contains(target.file.text, RoutePost)

\* the registrations of /verify_signature that are not the static endpoint
VerifyRegistrations ==
    { i \in 1..Len(target.routes) : /\ target.routes[i].endpoint # "static"
                                    /\ target.routes[i].path = "/verify_signature" }

\* C5: test_no_duplicate_verify_signature gives PASS exactly when, the static
\* endpoint left out, one registration has the path /verify_signature and its
\* method set contains POST; one GET-only registration passes the existence
\* check, fails the method check and the rule is FAIL; no registration and two
\* or more are FAIL with different messages.
C5_RouteTableRule ==
    (harness = "dynamic" /\ target.importable /\ HasVerdict(DynamicTests[1])) =>
        LET regs == VerifyRegistrations
            ls == LinesOf(DynamicTests[1])
            post == \A i \in regs : "POST" \in target.routes[i].methods
        IN  /\ Verdict(DynamicTests[1]) <=> (Cardinality(regs) = 1 /\ post)
            /\ ((Cardinality(regs) = 1 /\ ~post) =>
                    /\ HasLine(ls, "ok", "Only ONE /verify_signature route exists")
                    /\ HasLine(ls, "fail", "Route does not accept POST"))
            /\ (Cardinality(regs) = 0 =>
                    /\ HasLine(ls, "fail", "No /verify_signature route found!")
                    /\ ~HasLine(ls, "fail", "duplicate"))
            /\ (Cardinality(regs) >= 2 =>
                    /\ HasLine(ls, "fail", "Found " \o ToString(Cardinality(regs)) \o " duplicate")
                    /\ ~HasLine(ls, "fail", "No /verify_signature route found!"))

\* the rule has judged a url map whose only /verify_signature registration,
\* next to a static endpoint on the same path, is GET-only
C5_Witness ==
    /\ harness = "dynamic" /\ target.importable /\ HasVerdict(DynamicTests[1])
    /\ ~Verdict(DynamicTests[1])
    /\ Cardinality(VerifyRegistrations) = 1
    /\ \A i \in VerifyRegistrations : "POST" \notin target.routes[i].methods
    /\ \E i \in 1..Len(target.routes) : target.routes[i] = RuleStaticVerify

IsMember(name) == name \in DOMAIN target.members
IsFunctionMember(name) == IsMember(name) /\ target.members[name].kind = "function"

\* C6 as stated: test_verify_signature_function gives PASS for a namespace
\* that contains the symbol verify_signature and not verify_signature_legacy,
\* FAIL for one that contains both, FAIL for one without verify_signature.
C6_SymbolUniqueness ==
    (harness = "dynamic" /\ target.importable /\ HasVerdict(DynamicTests[2])) =>
        /\ (IsMember("verify_signature") /\ ~IsMember("verify_signature_legacy")
                => Verdict(DynamicTests[2]))
        /\ (IsMember("verify_signature") /\ IsMember("verify_signature_legacy")
                => ~Verdict(DynamicTests[2]))
        /\ (~IsMember("verify_signature") => ~Verdict(DynamicTests[2]))

\* C6 amended: the rule looks at plain functions only. It gives PASS exactly
\* when verify_signature is a function of the module and
\* verify_signature_legacy is not a function of the module; both functions
\* gives FAIL; verify_signature absent or not a function gives FAIL.
C6_FunctionUniqueness ==
    (harness = "dynamic" /\ target.importable /\ HasVerdict(DynamicTests[2])) =>
        /\ Verdict(DynamicTests[2]) <=>
              (IsFunctionMember("verify_signature") /\ ~IsFunctionMember("verify_signature_legacy"))
        /\ (~IsFunctionMember("verify_signature") =>
              HasLine(LinesOf(DynamicTests[2]), "fail", "verify_signature function not found"))
        /\ (IsFunctionMember("verify_signature") /\ IsFunctionMember("verify_signature_legacy") =>
              HasLine(LinesOf(DynamicTests[2]), "fail", "verify_signature_legacy function still exists"))

\* the rule has passed a module whose verify_signature_legacy is not a function
C6_Witness ==
    /\ harness = "dynamic" /\ target.importable /\ HasVerdict(DynamicTests[2])
    /\ Verdict(DynamicTests[2])
    /\ IsMember("verify_signature_legacy") /\ ~IsFunctionMember("verify_signature_legacy")

\* the line sets or keeps the helper region of test_chat_message_handler
HelperLine(l) == Contains(l, "def add_chat_message") \/ Contains(l, "def purge_old_chat_messages")
TopLevelLine(l) == StartsWith(l, "def ") \/ StartsWith(l, "class ")
\* line i lies in the allowed region: after the def line of a helper, with no
\* other top-level def or class line in between
InHelper(lines, i) ==
    \E j \in 1..i : /\ HelperLine(lines[j])
                     /\ \A k \in (j + 1)..i : TopLevelLine(lines[k]) => HelperLine(lines[k])
\* the lines that use pat inside / outside the allowed region
UsesInside(lines, pat) == { i \in 1..Len(lines) : Contains(lines[i], pat) /\ InHelper(lines, i) }
UsesOutside(lines, pat) == { i \in 1..Len(lines) : Contains(lines[i], pat) /\ ~InHelper(lines, i) }
\* the outside uses the handler rule reports: no '# Fallback' marker on the
\* line, and no line that reads exactly add_chat_message among the ten lines
\* that end with it
Flagged(lines) ==
    { i \in UsesOutside(lines, "CHAT_HISTORY.append") :
        /\ ~Contains(lines[i], "# Fallback")
        /\ \A j \in Max(1, i - 9)..i : lines[j] # "add_chat_message" }

\* C7 as stated: a use of the forbidden pattern (CHAT_HISTORY.append for
\* test_chat_message_handler, get_storage() for
\* test_issue2_no_get_storage_calls) that lies only inside the helper functions
\* does not make the rule FAIL, and a use outside them makes the rule FAIL.
C7_ScopedForbiddenFails ==
    LET lines == Split(target.file.text)
    IN  /\ (harness = "dynamic" /\ Settled(DynamicTests[6])) =>
              /\ (UsesOutside(lines, "CHAT_HISTORY.append") # {} => ~Verdict(DynamicTests[6]))
              /\ ((UsesOutside(lines, "CHAT_HISTORY.append") = {}
                   /\ Contains(target.file.text, "add_chat_message(")) => Verdict(DynamicTests[6]))
        /\ (harness = "static" /\ Settled(StaticTests[4])) =>
              /\ (UsesOutside(lines, "get_storage()") # {} => ~Verdict(StaticTests[4]))
              /\ (UsesOutside(lines, "get_storage()") = {} => Verdict(StaticTests[4]))

\* C7 amended: CHAT_HISTORY.append never makes test_chat_message_handler
\* FAIL; the rule is FAIL only when add_chat_message( is missing from the
\* text. A use outside the helper functions (without '# Fallback', and without
\* a line reading exactly add_chat_message among the ten lines ending with it)
\* gives a WARN and the rule still returns True; uses inside the helper
\* functions give no warning. test_issue2_no_get_storage_calls has no allowed
\* region: get_storage() anywhere in the text, inside a helper function or
\* not, gives FAIL.
C7_ScopedForbiddenWarns ==
    LET lines == Split(target.file.text)
    IN  /\ (harness = "dynamic" /\ Settled(DynamicTests[6])) =>
              LET ls == LinesOf(DynamicTests[6])
              IN  /\ Verdict(DynamicTests[6]) <=> Contains(target.file.text, "add_chat_message(")
                  /\ (Verdict(DynamicTests[6]) =>
                        /\ ~HasKind(ls, "fail")
                        /\ HasKind(ls, "warn") <=> Flagged(lines) # {}
                        /\ (Flagged(lines) # {} =>
                              HasLine(ls, "warn", "Found " \o ToString(Cardinality(Flagged(lines)))
                                                  \o " direct CHAT_HISTORY.append calls")))
        /\ (harness = "static" /\ Settled(StaticTests[4])) =>
              /\ Verdict(StaticTests[4]) <=>
                    (UsesInside(lines, "get_storage()") = {} /\ UsesOutside(lines, "get_storage()") = {})

\* the handler rule has returned True with a warning on a text that uses
\* CHAT_HISTORY.append both inside a helper function and outside
C7_Witness ==
    LET lines == Split(target.file.text)
    IN  /\ harness = "dynamic" /\ Settled(DynamicTests[6]) /\ Verdict(DynamicTests[6])
        /\ HasKind(LinesOf(DynamicTests[6]), "warn")
        /\ UsesInside(lines, "CHAT_HISTORY.append") # {}
        /\ Flagged(lines) # {}

\* C8: a rule whose outcome lines hold no FAIL and that raised no exception
\* returns True, so a run whose only non-PASS outcomes are warnings ends with
\* failed count 0 and exit code 0.
C8_WarnNeverFails ==
    /\ \A i \in 1..Len(results) :
          (results[i].name \notin crashed /\ ~HasKind(LinesOf(results[i].name), "fail"))
              => results[i].val
    /\ (pc = "done" /\ crashed = {} /\ ~HasKind(out, "fail")) =>
          summary.failed = 0 /\ summary.exit = 0

\* a finished run with warnings and no failure
C8_Witness ==
    /\ pc = "done" /\ crashed = {} /\ ~HasKind(out, "fail") /\ summary.exit = 0
    /\ \E i \in 1..Len(out) :
          /\ out[i].kind = "warn"
          /\ out[i].rule \in {StaticTests[8], StaticTests[11], DynamicTests[5]}

\* C9 as stated: a run of the static harness reads app/app.py at most once.
C9_ReadOnce == harness = "static" => reads <= 1

\* C9 amended: nothing is cached. Every rule of the static harness opens
\* app/app.py itself, so the number of successful reads in a run is the number
\* of rules run so far that did not crash at the read: 14 in a complete run
\* over a readable file.
C9_ReadPerRule ==
    harness = "static" =>
        /\ reads = Len(results) - Cardinality(crashed)
        /\ (pc = "done" /\ crashed = {} => reads = 14)

\* a complete static run that read the file for each of its rules
C9_Witness == harness = "static" /\ pc = "done" /\ crashed = {} /\ reads = Len(StaticTests)

VerdictsOf(d) == { <<d[i].name, d[i].val>> : i \in 1..Len(d) }
\* the place of a rule in the list of this run
PlaceOf(name) == CHOOSE k \in 1..Len(tests) : Catalog(harness)[tests[k]] = name

\* C11: rules run one at a time in the order of the list, and with the list
\* in any other order over the same target every rule has the same verdict and
\* the pass/fail counts and exit code are the same; only the order of the
\* report lines changes, and it follows the list.
C11_OrderIndependence ==
    /\ \A i \in 1..Len(results) : results[i].name = Catalog(harness)[tests[i]]
    /\ (pc = "loop" => Len(results) = idx - 1)
    /\ \A i, j \in 1..Len(out) : i < j => PlaceOf(out[i].rule) <= PlaceOf(out[j].rule)
    /\ (pc = "done" =>
            /\ Len(summary.lines) = Len(tests)
            /\ \A i \in 1..Len(tests) :
                  summary.lines[i].name =
                      (IF harness = "static"
                       THEN Replace(Replace(StaticTests[tests[i]], "test_issue", "Issue #"), "_", " ")
                       ELSE DynamicTests[tests[i]]))
    /\ ((run = 2 /\ pc \in {"done", "aborted"}) =>
            /\ VerdictsOf(results) = VerdictsOf(prev.results)
            /\ Passed(results) = Passed(prev.results)
            /\ NotPassed(results) = NotPassed(prev.results)
            /\ summary.exit = prev.exit
            /\ summary.printed = prev.printed)

\* a run in another order has finished, with failing and passing rules and
\* its verdicts recorded in another order than those of the first run
C11_Witness ==
    /\ run = 2 /\ pc = "done" /\ tests # ListedOrder(harness)
    /\ results # prev.results
    /\ summary.failed >= 1 /\ summary.passed >= 1

\* the region a handler-scoped rule is meant to examine: from the end of the
\* first marker P, through the def line directly under it and the body, up to
\* the next top-level declaration or the end of the text
HandlerRegion(s, P, rule) ==
    LET a == Min(Hits(s, P)) + PatLen(P)
        ends == { k \in (a + 1)..Len(s) : EndAt(rule, s, k) }
    IN  SubSeq(s, a, IF ends = {} THEN Len(s) ELSE Min(ends) - 1)
\* a handler is defined directly under the first marker P
HandlerUnder(s, P) == Hits(s, P) # {} /\ DefAhead(s, Min(Hits(s, P)) + PatLen(P))

\* C12: test_issue3_add_chat_message_used and
\* test_issue3_get_chat_history_used examine the handler defined directly
\* under the marker, body included: the rule is PASS when that body calls
\* add_chat_message( (resp. get_chat_history()) and FAIL only when it does not.
C12_HandlerBodyExamined ==
    LET s == target.file.text
        socket == Quoted("@socketio.on(", "message", ")")
        chat == Quoted("@app.route(", "/chat", ")")
    IN  /\ (harness = "static" /\ Settled(StaticTests[12]) /\ HandlerUnder(s, socket)) =>
              (Verdict(StaticTests[12]) <=>
                  Contains(HandlerRegion(s, socket, "message"), "add_chat_message("))
        /\ (harness = "static" /\ Settled(StaticTests[13]) /\ HandlerUnder(s, chat)) =>
              (Verdict(StaticTests[13]) <=>
                  Contains(HandlerRegion(s, chat, "/chat"), "get_chat_history()"))

\* a /verify_signature route decorator, as the occurrence-count rule counts
\* them, is followed by `def verify_signature():`
DecoratedVerify(s) ==
    \E i \in RouteDecorators(s) :
        \E j \in (i + 1)..Len(s) : MatchAt(s, j, "def verify_signature():")

\* C13: whenever the text holds a /verify_signature route decorator followed
\* by `def verify_signature():`, test_issue1_finish_login_used locates the
\* function, whose region ends at the next top-level declaration or at the end
\* of the text; 'Could not find verify_signature function' (FAIL) is reported
\* only when there is no such decorated function.
C13_VerifyRegionLocated ==
    (harness = "static" /\ Settled(StaticTests[3])) =>
        LET missing == HasLine(LinesOf(StaticTests[3]), "fail", "Could not find verify_signature function")
        IN  /\ DecoratedVerify(target.file.text) => (~missing /\ Verdict(StaticTests[3]))
            /\ ~DecoratedVerify(target.file.text) => (missing /\ ~Verdict(StaticTests[3]))

\* DEPRECATED stands in one of the ContextLines lines right before a line
\* that declares decl
MarkerNear(s, decl) ==
    LET lines == Split(s)
    IN  \E i \in 1..Len(lines) :
          /\ Contains(lines[i], decl)
          /\ \E j \in Max(1, i - ContextLines)..(i - 1) : Contains(lines[j], "DEPRECATED")

\* C14: a store declaration (CHAT_HISTORY: List, CLIENT_STORE: Dict,
\* AUTH_CODE_STORE: Dict) is reported as marked DEPRECATED exactly when
\* DEPRECATED stands in one of the 5 lines right before the declaration; a
\* DEPRECATED elsewhere in the file does not count.
C14_MarkerProximity ==
    LET s == target.file.text
    IN  /\ (harness = "static" /\ Settled(StaticTests[14])) =>
              (HasLine(LinesOf(StaticTests[14]), "ok", "CHAT_HISTORY marked as DEPRECATED")
                  <=> MarkerNear(s, "CHAT_HISTORY: List"))
        /\ (harness = "dynamic" /\ Settled(DynamicTests[7])) =>
              (HasLine(LinesOf(DynamicTests[7]), "ok", "CHAT_HISTORY is marked as DEPRECATED")
                  <=> MarkerNear(s, "CHAT_HISTORY: List"))
        /\ (harness = "static" /\ Settled(StaticTests[8])) =>
              /\ HasLine(LinesOf(StaticTests[8]), "ok", "CLIENT_STORE marked as DEPRECATED")
                    <=> MarkerNear(s, "CLIENT_STORE: Dict")
              /\ HasLine(LinesOf(StaticTests[8]), "ok", "AUTH_CODE_STORE marked as DEPRECATED")
                    <=> MarkerNear(s, "AUTH_CODE_STORE: Dict")

\* C15: any get_storage() in the text makes test_issue2_no_get_storage_calls
\* FAIL, and the failing rule reports the first matching lines of the file, at
\* most a small preview count of them, wherever in the file they are.
C15_FirstMatchesReported ==
    (harness = "static" /\ Settled(StaticTests[4])) =>
        LET lines == Split(target.file.text)
            matching == { i \in 1..Len(lines) : Contains(lines[i], "get_storage()") }
            isInfo(l) == l.kind = "info"
            infos == SelectSeq(LinesOf(StaticTests[4]), isInfo)
        IN  /\ Verdict(StaticTests[4]) <=> matching = {}
            /\ (matching # {} =>
                  /\ Len(infos) = (IF Cardinality(matching) < PreviewCount
                                   THEN Cardinality(matching) ELSE PreviewCount)
                  /\ infos[1].msg = "  Line " \o ToString(Min(matching)) \o ": "
                                     \o Strip(lines[Min(matching)]))

====
